---- MODULE Spec2Model ----
(***************************************************************************)
(* A model of the tech-news-blog generator                                 *)
(* (tech-news-blog/scripts/generate.py and llm_translate.py).              *)
(*                                                                         *)
(* Part 1: the translation cache of create_blog_post: load the cache file, *)
(* resolve each selected article (cache hit, backend, or template), save   *)
(* the cache file.  Several runs (processes) share the cache file.         *)
(***************************************************************************)
EXTENDS Integers, Sequences, FiniteSets, TLC

VARIABLES
  disk,    \* cache/translations.json: [valid, data]; valid = FALSE: missing or unparseable
  pc,      \* pc[p]: where run p of create_blog_post stands
  env,     \* env[p]: which API keys the environment of run p holds (after strip)
  cache,   \* cache[p]: the dict `cache` of run p
  todo,    \* todo[p]: the selected articles run p has still to resolve
  last,    \* last[p]: what the latest resolution of run p did (history)
  called   \* the keys a backend request was ever sent for, over all runs (history)

VARIABLES
  pkArticles,  \* pick_articles_balanced: the candidates, each [id, source]
  pkLimit,     \* its limit
  pkPer,       \* its per_source
  pkOrder,     \* its source_order (<<>>: none given)
  pkResult,    \* what it returned
  pkDone       \* whether it has been called

VARIABLES
  posts,       \* POSTS_DIR: the document of each post file that exists, by the date string in its name
  published,   \* published[n]: the articles post n was rendered from (history)
  ddArticles,  \* dedupe_articles: the articles handed to it
  ddDate,      \* its current_date
  ddDays,      \* its days
  ddResult,    \* what it returned
  ddDone       \* whether it has been called

VARIABLES
  catTitle,    \* categorize: the title handed to it, a sequence of characters
  catResult,   \* what it returned
  catDone      \* whether it has been called

VARIABLES
  argv,        \* main: the flags on the command line
  args,        \* what parse_args made of them
  mainPc,      \* where main stands
  hexo         \* the hexo commands main has run, in order

runVars == <<disk, pc, env, cache, todo, last, called>>

pickVars == <<pkArticles, pkLimit, pkPer, pkOrder, pkResult, pkDone>>

postVars == <<posts, published, ddArticles, ddDate, ddDays, ddResult, ddDone>>

catVars == <<catTitle, catResult, catDone>>

mainVars == <<argv, args, mainPc, hexo>>

vars == <<runVars, pickVars, postVars, catVars, mainVars>>

\* what each part of the program leaves alone
notRun == <<pickVars, postVars, catVars, mainVars>>

notPick == <<runVars, postVars, catVars, mainVars>>

notPost == <<runVars, pickVars, catVars, mainVars>>

notCat == <<runVars, pickVars, postVars, mainVars>>

----------------------------------------------------------------------------
(* Bounds *)

\* the longest list of selected articles a run translates
MaxRunLen == 2
\* the most candidates handed to pick_articles_balanced
MaxArticles == 6
\* the largest limit
MaxLimit == 4
\* the largest per_source
MaxPerSource == 2
\* the longest source_order
MaxOrderLen == 2
\* the longest title handed to categorize
MaxTitleLen == 5
\* the largest days of dedupe_articles
MaxDays == 3
\* the longest list handed to dedupe_articles
MaxDedupeLen == 2
\* the longest list of articles of a post
MaxPostLen == 2
\* the last day a post is written for
MaxPostDay == 2

----------------------------------------------------------------------------
(* Program constants *)

\* dedupe_articles(articles, current_date, days=3)
DefaultDays == 3
\* create_blog_post(..., limit=10)
DefaultLimit == 10
\* pick_articles_balanced(articles, limit=limit, per_source=2, ...)
PerSourceQuota == 2

----------------------------------------------------------------------------
(* Values *)

\* Python's None
None == "<None>"

\* the two runs that may overlap
Procs == {1, 2}

\* Python truthiness of an optional string, as used by `x or y`
Truthy(x) == x # None /\ x # ""

\* the placeholder bullet of the template and of backend A's padding
Placeholder == "details-pending"

\* the default source of the template summary
DefaultSrc == "community"

\* selected articles a run may be handed (title, link, description, source_name)
TrArticles ==
  { [link |-> "l1", title |-> "t1", description |-> None, source_name |-> "Hacker News"],
    [link |-> "l1", title |-> "t2", description |-> "d",  source_name |-> "Lobsters"],
    [link |-> None, title |-> "t1", description |-> None, source_name |-> None],
    [link |-> "",   title |-> "",   description |-> None, source_name |-> None] }

\* key = a.get("link") or a.get("title")
Key(a) == IF Truthy(a.link) THEN a.link ELSE a.title

Keys == { Key(a) : a \in { b \in TrArticles : Truthy(Key(b)) } }

\* sequences over S of length at most n
SeqUpTo(S, n) == UNION { [1..m -> S] : m \in 0..n }

\* the concatenation of a sequence of sequences
RECURSIVE Flatten(_)
Flatten(ss) == IF ss = <<>> THEN <<>> ELSE Head(ss) \o Flatten(Tail(ss))

\* the API keys a run may find in its environment
Envs == [anthropic : BOOLEAN, openai : BOOLEAN]

\* what the HTTP request to the backend may come back with: a failure (network
\* error, bad status, unusable body) or a text with a title, a summary and
\* some bullets
Replies ==
  { [ok |-> FALSE, title |-> "", text |-> <<>>, bullets |-> <<>>],
    [ok |-> TRUE, title |-> "zhA", text |-> <<"sumA">>, bullets |-> <<"b1">>] }

EmptyCache == [k \in {} |-> None]

NoFile == [valid |-> FALSE, data |-> EmptyCache]

\* a cache file left by an earlier run
OldPair == [zh_title |-> "zhOld", zh_summary |-> [text |-> <<"sumOld">>, bullets |-> <<"b1", "b2", "b3">>]]

OldFile == [valid |-> TRUE, data |-> [k \in {"l1"} |-> OldPair]]

\* a function result: a value returned or an exception raised
Return(v) == [raised |-> FALSE, value |-> v]

Raise == [raised |-> TRUE, value |-> None]

----------------------------------------------------------------------------
(* llm_translate.py *)

\* while len(bullet_parts) < 3: bullet_parts.append(placeholder)
RECURSIVE PadBullets(_)
PadBullets(bs) == IF Len(bs) < 3 THEN PadBullets(Append(bs, Placeholder)) ELSE bs

\* translate_title_and_summary: backend A (Minimax) when ANTHROPIC_API_KEY is set,
\* else backend B (OpenAI) when OPENAI_API_KEY is set, else RuntimeError
TranslateTitleAndSummary(title, description, source, e, reply) ==
  IF e.anthropic
  THEN IF reply.ok
       THEN Return([zh_title |-> reply.title,
                    zh_summary |-> [text |-> reply.text, bullets |-> PadBullets(reply.bullets)]])
       ELSE Raise
  ELSE IF ~e.openai
       THEN Raise
       ELSE IF reply.ok
            THEN Return([zh_title |-> reply.title,
                         zh_summary |-> [text |-> reply.text, bullets |-> reply.bullets]])
            ELSE Raise

\* whether translate_title_and_summary sends a request to a backend
BackendCalled(e) == e.anthropic \/ e.openai

----------------------------------------------------------------------------
(* generate.py: translate_with_llm *)

\* a template that forgets the source name and one bullet
TemplatePairShort(title, source_name) ==
  [zh_title |-> title,
   zh_summary |-> [text |-> <<"from", DefaultSrc, "hot-topic">>,
                   bullets |-> <<Placeholder, Placeholder>>]]

\* the fallback: the title kept, a sentence naming src, and three placeholder bullets
TemplatePair(title, source_name) ==
  [zh_title |-> title,
   zh_summary |-> [text |-> <<"from", IF Truthy(source_name) THEN source_name ELSE DefaultSrc, "hot-topic">>,
                   bullets |-> <<Placeholder, Placeholder, Placeholder>>]]

\* a translate_with_llm that lets the backend's error through
TranslateWithLlmPropagating(title, description, source_name, e, reply) ==
  IF e.anthropic \/ e.openai
  THEN TranslateTitleAndSummary(title, IF Truthy(description) THEN description ELSE "",
                                source_name, e, reply)
  ELSE Return(TemplatePair(title, source_name))

\* translate_with_llm: the backend when a key is configured; `except Exception`
\* and the no-key branch both fall through to the template
TranslateWithLlm(title, description, source_name, e, reply) ==
  LET has_api_key == e.anthropic \/ e.openai
  IN  IF has_api_key
      THEN LET r == TranslateTitleAndSummary(title, IF Truthy(description) THEN description ELSE "",
                                             source_name, e, reply)
           IN  IF r.raised THEN Return(TemplatePair(title, source_name)) ELSE r
      ELSE Return(TemplatePair(title, source_name))

----------------------------------------------------------------------------
(* generate.py: create_blog_post, the translation cache *)

\* a run that starts from an empty dict whatever the file holds
LoadCacheFromEmpty(d) == EmptyCache

\* cache = json.loads(cache_path.read_text()), or {} on any exception
LoadCache(d) == IF d.valid THEN d.data ELSE EmptyCache

\* cache_path.write_text(json.dumps(cache)): the whole file is replaced
SaveCache(d, c) == [valid |-> TRUE, data |-> c]

\* cache[key] = {...}
Put(c, k, v) == [x \in DOMAIN c \cup {k} |-> IF x = k THEN v ELSE c[x]]

\* a loop body without the `if key in cache` branch
ResolveArticleNoLookup(a, c, e, reply) ==
  LET key == Key(a)
      r == TranslateWithLlm(a.title, a.description, a.source_name, e, reply)
  IN  [cache |-> Put(c, key, r.value), raised |-> FALSE,
       entry |-> [key |-> key, kind |-> "miss", pair |-> r.value, article |-> a,
                  configured |-> BackendCalled(e), called |-> BackendCalled(e),
                  failed |-> BackendCalled(e) /\ ~reply.ok]]

\* one pass of the body of `for a in articles`: what it does to the cache and
\* what it leaves on the article
ResolveArticle(a, c, e, reply) ==
  LET key == Key(a)
  IN  IF ~Truthy(key)
      THEN [cache |-> c, raised |-> FALSE,
            entry |-> [key |-> key, kind |-> "skipped", pair |-> None, article |-> a,
                       configured |-> BackendCalled(e), called |-> FALSE, failed |-> FALSE]]
      ELSE IF key \in DOMAIN c
      THEN [cache |-> c, raised |-> FALSE,
            entry |-> [key |-> key, kind |-> "hit", pair |-> c[key], article |-> a,
                       configured |-> BackendCalled(e), called |-> FALSE, failed |-> FALSE]]
      ELSE LET r == TranslateWithLlm(a.title, a.description, a.source_name, e, reply)
           IN  IF r.raised
               THEN [cache |-> c, raised |-> TRUE,
                     entry |-> [key |-> key, kind |-> "raised", pair |-> None, article |-> a,
                                configured |-> BackendCalled(e), called |-> BackendCalled(e),
                                failed |-> TRUE]]
               ELSE [cache |-> Put(c, key, r.value), raised |-> FALSE,
                     entry |-> [key |-> key, kind |-> "miss", pair |-> r.value, article |-> a,
                                configured |-> BackendCalled(e), called |-> BackendCalled(e),
                                failed |-> BackendCalled(e) /\ ~reply.ok]]

\* before a run's first resolution
NoEntry ==
  [key |-> None, kind |-> "none", pair |-> None, article |-> None,
   configured |-> FALSE, called |-> FALSE, failed |-> FALSE]

RunInit ==
  /\ disk \in {NoFile, OldFile}
  /\ pc = [p \in Procs |-> "idle"]
  /\ env = [p \in Procs |-> [anthropic |-> FALSE, openai |-> FALSE]]
  /\ cache = [p \in Procs |-> EmptyCache]
  /\ todo = [p \in Procs |-> <<>>]
  /\ last = [p \in Procs |-> NoEntry]
  /\ called = {}

\* a run starts: the articles are selected and the cache file is read
Start(p) ==
  /\ pc[p] \in {"idle", "done", "aborted"}
  /\ \E e \in Envs, arts \in SeqUpTo(TrArticles, MaxRunLen) :
       /\ env' = [env EXCEPT ![p] = e]
       /\ todo' = [todo EXCEPT ![p] = arts]
  /\ cache' = [cache EXCEPT ![p] = LoadCache(disk)]
  /\ last' = [last EXCEPT ![p] = NoEntry]
  /\ pc' = [pc EXCEPT ![p] = "loop"]
  /\ UNCHANGED <<disk, called, notRun>>

\* the single run of process p, when two processes each run the program once
StartOnce(p) == pc[p] = "idle" /\ Start(p)

\* the loop body for the next article
Resolve(p) ==
  /\ pc[p] = "loop"
  /\ todo[p] # <<>>
  /\ \E reply \in Replies :
       LET r == ResolveArticle(Head(todo[p]), cache[p], env[p], reply)
       IN  /\ last' = [last EXCEPT ![p] = r.entry]
           /\ called' = IF r.entry.called THEN called \cup {r.entry.key} ELSE called
           /\ IF r.raised
              THEN /\ pc' = [pc EXCEPT ![p] = "aborted"]
                   /\ cache' = [cache EXCEPT ![p] = EmptyCache]
                   /\ todo' = [todo EXCEPT ![p] = <<>>]
              ELSE /\ pc' = pc
                   /\ cache' = [cache EXCEPT ![p] = r.cache]
                   /\ todo' = [todo EXCEPT ![p] = Tail(@)]
  /\ UNCHANGED <<disk, env, notRun>>

\* the loop is over: the cache file is written and the run ends (cache[p] is
\* kept as the record of what the run wrote)
Save(p) ==
  /\ pc[p] = "loop"
  /\ todo[p] = <<>>
  /\ disk' = SaveCache(disk, cache[p])
  /\ pc' = [pc EXCEPT ![p] = "done"]
  /\ UNCHANGED <<env, cache, todo, last, called, notRun>>

\* the run dies inside the loop (an exception `except Exception` does not catch,
\* such as KeyboardInterrupt, or the process is killed): nothing is written
Abort(p) ==
  /\ pc[p] = "loop"
  /\ todo[p] # <<>>
  /\ pc' = [pc EXCEPT ![p] = "aborted"]
  /\ cache' = [cache EXCEPT ![p] = EmptyCache]
  /\ todo' = [todo EXCEPT ![p] = <<>>]
  /\ UNCHANGED <<disk, env, last, called, notRun>>

----------------------------------------------------------------------------
(* generate.py: pick_articles_balanced *)

\* the sources candidates come from; None: the article has no 'source'
ArticleSources == {"s1", "s2", None}

\* the names a source_order may list ("s3" never has a candidate)
OrderNames == {"s1", "s2", "s3"}

\* a.get('source', 'unknown')
SourceOf(a) == IF a.source = None THEN "unknown" ELSE a.source

\* the lexicographic order of the source names, for sorted()
SrcRank(x) == CASE x = "s1" -> 1 [] x = "s2" -> 2 [] x = "s3" -> 3 [] x = "unknown" -> 4

\* s[:n] for n >= 0
Slice(s, n) == SubSeq(s, 1, IF n < Len(s) THEN n ELSE Len(s))

\* for a in articles: buckets.setdefault(source, []).append(a)
RECURSIVE FillBuckets(_, _)
FillBuckets(articles, b) ==
  IF articles = <<>>
  THEN b
  ELSE LET a == Head(articles)
           k == SourceOf(a)
           old == IF k \in DOMAIN b THEN b[k] ELSE <<>>
       IN  FillBuckets(Tail(articles),
                       [x \in DOMAIN b \cup {k} |-> IF x = k THEN Append(old, a) ELSE b[x]])

\* sorted(keys)
RECURSIVE Sorted(_)
Sorted(S) ==
  IF S = {}
  THEN <<>>
  ELSE LET m == CHOOSE x \in S : \A y \in S : SrcRank(x) <= SrcRank(y)
       IN  <<m>> \o Sorted(S \ {m})

\* the first loop: up to per_source of each source, with the early return
RECURSIVE QuotaPass(_, _, _, _, _)
QuotaPass(order, buckets, per_source, limit, picked) ==
  IF order = <<>>
  THEN [returned |-> FALSE, picked |-> picked]
  ELSE LET src == Head(order)
           p2 == IF src \in DOMAIN buckets
                 THEN picked \o Slice(buckets[src], per_source)
                 ELSE picked
       IN  IF Len(p2) >= limit
           THEN [returned |-> TRUE, picked |-> Slice(p2, limit)]
           ELSE QuotaPass(Tail(order), buckets, per_source, limit, p2)

\* one `for src in order` of the second loop, at offset i (0-based)
RECURSIVE FillRound(_, _, _, _, _, _)
FillRound(order, buckets, i, limit, picked, progressed) ==
  IF order = <<>>
  THEN [returned |-> FALSE, picked |-> picked, progressed |-> progressed]
  ELSE LET src == Head(order)
       IN  IF src \in DOMAIN buckets /\ i < Len(buckets[src])
           THEN LET p2 == Append(picked, buckets[src][i + 1])
                IN  IF Len(p2) >= limit
                    THEN [returned |-> TRUE, picked |-> Slice(p2, limit), progressed |-> TRUE]
                    ELSE FillRound(Tail(order), buckets, i, limit, p2, TRUE)
           ELSE FillRound(Tail(order), buckets, i, limit, picked, progressed)

\* while len(picked) < limit: a round at offset i, then i += 1
RECURSIVE FillPass(_, _, _, _, _)
FillPass(order, buckets, i, limit, picked) ==
  IF ~(Len(picked) < limit)
  THEN Slice(picked, limit)
  ELSE LET r == FillRound(order, buckets, i, limit, picked, FALSE)
       IN  IF r.returned THEN r.picked
           ELSE IF ~r.progressed THEN Slice(r.picked, limit)
           ELSE FillPass(order, buckets, i + 1, limit, r.picked)

\* a selector without the second loop
PickQuotaOnly(articles, limit, per_source, source_order) ==
  LET buckets == FillBuckets(articles, [k \in {} |-> <<>>])
      order == IF source_order # <<>> THEN source_order ELSE Sorted(DOMAIN buckets)
  IN  Slice(QuotaPass(order, buckets, per_source, limit, <<>>).picked, limit)

\* pick_articles_balanced(articles, limit, per_source, source_order)
PickArticlesBalanced(articles, limit, per_source, source_order) ==
  LET buckets == FillBuckets(articles, [k \in {} |-> <<>>])
      order == IF source_order # <<>> THEN source_order ELSE Sorted(DOMAIN buckets)
      q == QuotaPass(order, buckets, per_source, limit, <<>>)
  IN  IF q.returned THEN q.picked
      ELSE FillPass(order, buckets, per_source, limit, q.picked)

\* the candidate list whose i-th article comes from source ss[i]
Candidates(ss) == [i \in 1..Len(ss) |-> [id |-> i, source |-> ss[i]]]

\* the source orders: any list of names, as --sources hands them over (a name
\* may be missing, may have no candidate, may be listed twice)
Orders == SeqUpTo(OrderNames, MaxOrderLen)

PickIdle ==
  /\ pkArticles = <<>>
  /\ pkLimit = 0
  /\ pkPer = 0
  /\ pkOrder = <<>>
  /\ pkResult = <<>>
  /\ pkDone = FALSE

PickInit ==
  /\ pkArticles \in { Candidates(ss) : ss \in SeqUpTo(ArticleSources, MaxArticles) }
  /\ pkLimit \in 0..MaxLimit
  /\ pkPer \in 0..MaxPerSource
  /\ pkOrder \in Orders
  /\ pkResult = <<>>
  /\ pkDone = FALSE

\* the call
Pick ==
  /\ ~pkDone
  /\ pkResult' = PickArticlesBalanced(pkArticles, pkLimit, pkPer, pkOrder)
  /\ pkDone' = TRUE
  /\ UNCHANGED <<pkArticles, pkLimit, pkPer, pkOrder, notPick>>

\* a run of the program not yet started
RunIdle ==
  /\ disk = NoFile
  /\ pc = [p \in Procs |-> "idle"]
  /\ env = [p \in Procs |-> [anthropic |-> FALSE, openai |-> FALSE]]
  /\ cache = [p \in Procs |-> EmptyCache]
  /\ todo = [p \in Procs |-> <<>>]
  /\ last = [p \in Procs |-> NoEntry]
  /\ called = {}

----------------------------------------------------------------------------
(* generate.py: categorize *)

\* Titles are sequences of one-character strings.

\* CATEGORIES, in order: AI and machine learning, games and retro tech,
\* developer tools and open source, infrastructure and industry, miscellany
CATEGORIES == <<"AI", "Games", "DevTools", "Infra", "Misc">>

\* str.lower(), on one character
LowerChar(c) ==
  CASE c = "A" -> "a"
    [] c = "B" -> "b"
    [] c = "C" -> "c"
    [] c = "D" -> "d"
    [] c = "E" -> "e"
    [] c = "F" -> "f"
    [] c = "G" -> "g"
    [] c = "H" -> "h"
    [] c = "I" -> "i"
    [] c = "J" -> "j"
    [] c = "K" -> "k"
    [] c = "L" -> "l"
    [] c = "M" -> "m"
    [] c = "N" -> "n"
    [] c = "O" -> "o"
    [] c = "P" -> "p"
    [] c = "Q" -> "q"
    [] c = "R" -> "r"
    [] c = "S" -> "s"
    [] c = "T" -> "t"
    [] c = "U" -> "u"
    [] c = "V" -> "v"
    [] c = "W" -> "w"
    [] c = "X" -> "x"
    [] c = "Y" -> "y"
    [] c = "Z" -> "z"
    [] OTHER -> c

\* title.lower()
Lower(t) == [i \in 1..Len(t) |-> LowerChar(t[i])]

\* k in t
Contains(t, k) == \E i \in 0..(Len(t) - Len(k)) : SubSeq(t, i + 1, i + Len(k)) = k

\* the keywords of the first branch
KwAI ==
  { <<"a", "i">>,
    <<"l", "l", "m">>,
    <<"m", "o", "d", "e", "l">>,
    <<"a", "g", "e", "n", "t">>,
    <<"g", "p", "t">>,
    <<"c", "l", "a", "u", "d", "e">>,
    <<"g", "r", "o", "k">>,
    <<"m", "l", " ">>,
    <<"n", "e", "u", "r", "a", "l">>,
    <<"d", "e", "e", "p", " ", "l", "e", "a", "r", "n", "i", "n", "g">> }

\* of the second
KwGames ==
  { <<"g", "a", "m", "e">>,
    <<"g", "a", "m", "i", "n", "g">>,
    <<"r", "e", "t", "r", "o">>,
    <<"v", "i", "n", "t", "a", "g", "e">>,
    <<"n", "o", "s", "t", "a", "l", "g", "i", "a">>,
    <<"c", "l", "a", "s", "s", "i", "c">>,
    <<"e", "m", "u", "l", "a", "t", "o", "r">>,
    <<"a", "m", "i", "g", "a">>,
    <<"c", "o", "m", "m", "o", "d", "o", "r", "e">> }

\* of the third
KwDevTools ==
  { <<"r", "u", "s", "t">>,
    <<"p", "y", "t", "h", "o", "n">>,
    <<"j", "a", "v", "a", "s", "c", "r", "i", "p", "t">>,
    <<"g", "i", "t", "h", "u", "b">>,
    <<"o", "p", "e", "n", " ", "s", "o", "u", "r", "c", "e">>,
    <<"f", "r", "a", "m", "e", "w", "o", "r", "k">>,
    <<"l", "i", "b", "r", "a", "r", "y">>,
    <<"t", "o", "o", "l">>,
    <<"c", "o", "m", "p", "i", "l", "e", "r">>,
    <<"d", "a", "t", "a", "b", "a", "s", "e">>,
    <<"s", "q", "l">> }

\* of the fourth
KwInfra ==
  { <<"c", "l", "o", "u", "d">>,
    <<"a", "w", "s">>,
    <<"g", "c", "p">>,
    <<"a", "z", "u", "r", "e">>,
    <<"s", "e", "r", "v", "e", "r">>,
    <<"d", "a", "t", "a", "c", "e", "n", "t", "e", "r">>,
    <<"i", "n", "f", "r", "a", "s", "t", "r", "u", "c", "t", "u", "r", "e">>,
    <<"k", "u", "b", "e", "r", "n", "e", "t", "e", "s">>,
    <<"d", "o", "c", "k", "e", "r">>,
    <<"d", "e", "v", "o", "p", "s">>,
    <<"s", "e", "c", "u", "r", "i", "t", "y">>,
    <<"p", "r", "i", "v", "a", "c", "y">>,
    <<"e", "n", "c", "r", "y", "p", "t", "i", "o", "n">> }

\* categorize(title)
\* a classifier that skips title.lower()
CategorizeCaseSensitive(title) ==
  LET t == title
  IN  IF \E k \in KwAI : Contains(t, k) THEN "AI"
      ELSE IF \E k \in KwGames : Contains(t, k) THEN "Games"
      ELSE IF \E k \in KwDevTools : Contains(t, k) THEN "DevTools"
      ELSE IF \E k \in KwInfra : Contains(t, k) THEN "Infra"
      ELSE "Misc"

\* categorize(title)
Categorize(title) ==
  LET t == Lower(title)
  IN  IF \E k \in KwAI : Contains(t, k) THEN "AI"
      ELSE IF \E k \in KwGames : Contains(t, k) THEN "Games"
      ELSE IF \E k \in KwDevTools : Contains(t, k) THEN "DevTools"
      ELSE IF \E k \in KwInfra : Contains(t, k) THEN "Infra"
      ELSE "Misc"

\* the characters of the titles: enough to spell a keyword of every branch
\* ("llm", "game", "sql", "aws"), the "a" in upper case only
TitleChars == {"A", "s", "q", "l", "w", "g", "m", "e"}

CatIdle ==
  /\ catTitle = <<>>
  /\ catResult = None
  /\ catDone = FALSE

CatInit ==
  /\ catTitle \in SeqUpTo(TitleChars, MaxTitleLen)
  /\ catResult = None
  /\ catDone = FALSE

\* the call
CategorizeCall ==
  /\ ~catDone
  /\ catResult' = Categorize(catTitle)
  /\ catDone' = TRUE
  /\ UNCHANGED <<catTitle, notCat>>

----------------------------------------------------------------------------
(* generate.py: create_post_content *)

\* A document is a sequence of tokens: the characters of links, titles and
\* comment links, and one token for every other piece of text.

\* "[source link](" and "[discussion](" as the template writes them
LinkMarker == "[link]("

DiscMarker == "[discussion]("

\* links, as sequences of characters
LinkX == <<"x">>

LinkY == <<"y">>

LinkParen == <<"x", "(", "y", ")">>

\* articles as the translation loop leaves them; comments = <<>>: none
PostArticles ==
  { [title |-> <<"A", "I">>, link |-> LinkX, source |-> "s1", comments |-> <<"c">>,
     zh_title |-> "zh1", zh_summary |-> "sum1"],
    [title |-> <<"R", "u", "s", "t">>, link |-> LinkY, source |-> "s2", comments |-> <<>>,
     zh_title |-> "", zh_summary |-> "sum2"],
    [title |-> <<>>, link |-> LinkParen, source |-> "s1", comments |-> <<>>,
     zh_title |-> "zh3", zh_summary |-> "sum3"],
    [title |-> <<"A", "W", "S">>, link |-> LinkX, source |-> "s2", comments |-> <<>>,
     zh_title |-> "zh4", zh_summary |-> ""] }

\* "\n".join(lines)
RECURSIVE JoinLines(_)
JoinLines(lines) ==
  IF lines = <<>> THEN <<>>
  ELSE IF Len(lines) = 1 THEN Head(lines)
  ELSE Head(lines) \o <<"\n">> \o JoinLines(Tail(lines))

\* the lines of one item of a section
ItemLines(item, with_images) ==
  LET zh_title == IF item.zh_title # "" THEN <<item.zh_title>> ELSE item.title
  IN  <<<<"### ">> \o zh_title, <<>>>>
      \o (IF with_images THEN <<<<"<!-- IMAGE: ">> \o item.link \o <<" -->">>, <<>>>> ELSE <<>>)
      \o <<<<item.zh_summary>>, <<>>>>
      \o (IF item.comments # <<>>
          THEN <<<<DiscMarker>> \o item.comments \o <<")">>, <<>>>>
          ELSE <<>>)
      \o <<<<LinkMarker>> \o item.link \o <<")">>, <<>>, <<"---">>, <<>>>>

\* the lines of the section of one category: none when it has no item
SectionLines(category, articles, with_images) ==
  LET items == SelectSeq(articles, LAMBDA a : Categorize(a.title) = category)
  IN  IF items = <<>>
      THEN <<>>
      ELSE <<<<"## ", category>>, <<>>>>
           \o Flatten([i \in 1..Len(items) |-> ItemLines(items[i], with_images)])

\* create_post_content(date, articles, with_images): the document, or the
\* NameError of the undefined generate_summary when an item has no zh_summary
CreatePostContent(date, articles, with_images) ==
  IF \E i \in 1..Len(articles) : articles[i].zh_summary = ""
  THEN Raise
  ELSE Return(JoinLines(
         <<<<"---">>, <<"title">>, <<"date">>, <<"tags">>, <<"categories">>, <<"---">>, <<>>,
           <<"> summary">>, <<>>, <<"---">>, <<>>>>
         \o Flatten([c \in 1..Len(CATEGORIES) |-> SectionLines(CATEGORIES[c], articles, with_images)])
         \o <<<<"footer">>, <<>>>>))

----------------------------------------------------------------------------
(* generate.py: dedupe_articles *)

\* A date string is [day, padded]: the day it names, and whether it is written
\* as strftime writes it (zero-padded).  strptime reads both forms.
Strptime(s) == s.day

Strftime(d) == [day |-> d, padded |-> TRUE]

\* re.findall of the link pattern, scanning from position i: the marker, one
\* or more characters other than ")", then ")"
RECURSIVE FindLinks(_, _)
FindLinks(doc, i) ==
  IF i > Len(doc)
  THEN {}
  ELSE IF doc[i] # LinkMarker
  THEN FindLinks(doc, i + 1)
  ELSE LET closes == { j \in (i + 1)..Len(doc) : doc[j] = ")" }
       IN  IF closes = {}
           THEN FindLinks(doc, i + 1)
           ELSE LET j == CHOOSE x \in closes : \A y \in closes : x <= y
                IN  IF j = i + 1
                    THEN FindLinks(doc, i + 1)
                    ELSE {SubSeq(doc, i + 1, j - 1)} \cup FindLinks(doc, j + 1)

ExtractLinks(doc) == FindLinks(doc, 1)

\* for i in range(1, days + 1): the links of the post of base - i, if it exists
RECURSIVE SeenLinks(_, _, _, _, _)
SeenLinks(i, days, base, dir, seen) ==
  IF i > days
  THEN seen
  ELSE LET prev_file == Strftime(base - i)
       IN  SeenLinks(i + 1, days, base, dir,
                     IF prev_file \in DOMAIN dir
                     THEN seen \cup ExtractLinks(dir[prev_file])
                     ELSE seen)

\* a scan that starts at the current date
DedupeArticlesFromToday(articles, current_date, days, dir) ==
  LET seen_links == SeenLinks(0, days - 1, Strptime(current_date), dir, {})
  IN  SelectSeq(articles, LAMBDA a : a.link \notin seen_links)

\* dedupe_articles(articles, current_date, days), with POSTS_DIR holding dir
DedupeArticles(articles, current_date, days, dir) ==
  LET seen_links == SeenLinks(1, days, Strptime(current_date), dir, {})
  IN  SelectSeq(articles, LAMBDA a : a.link \notin seen_links)

\* POSTS_DIR with no post
EmptyDir == [n \in {} |-> <<>>]

\* an article without a link
NoLinkArticle ==
  [title |-> <<"R", "u", "s", "t">>, link |-> <<>>, source |-> "s1", comments |-> <<>>,
   zh_title |-> "", zh_summary |-> ""]

\* two documents the program wrote on earlier days
DocA ==
  LET a == CHOOSE x \in PostArticles : x.link = LinkX /\ x.zh_summary # ""
      b == CHOOSE x \in PostArticles : x.link = LinkParen
  IN  CreatePostContent(Strftime(0), <<a, b>>, TRUE).value

DocB ==
  LET a == CHOOSE x \in PostArticles : x.link = LinkY
  IN  CreatePostContent(Strftime(0), <<a>>, FALSE).value

\* the days POSTS_DIR may hold a post for: the current date, the days before
\* it that the longest scan reaches, and one day more
DirDays == 1..(MaxDays + 2)

\* the directories: each day without a post or with one of the two documents
Directories ==
  UNION { [{ Strftime(d) : d \in D } -> {DocA, DocB}] : D \in SUBSET DirDays }

DedupeIdle ==
  /\ ddArticles = <<>>
  /\ ddDate = Strftime(0)
  /\ ddDays = 0
  /\ ddResult = <<>>
  /\ ddDone = FALSE

PostsIdle ==
  /\ posts = EmptyDir
  /\ published = EmptyDir
  /\ DedupeIdle

DedupeInit ==
  /\ posts \in Directories
  /\ published = EmptyDir
  /\ ddArticles \in SeqUpTo(PostArticles \cup {NoLinkArticle}, MaxDedupeLen)
  /\ ddDate \in { [day |-> MaxDays + 2, padded |-> b] : b \in BOOLEAN }
  /\ ddDays \in 0..MaxDays
  /\ ddResult = <<>>
  /\ ddDone = FALSE

\* the call
Dedupe ==
  /\ ~ddDone
  /\ ddResult' = DedupeArticles(ddArticles, ddDate, ddDays, posts)
  /\ ddDone' = TRUE
  /\ UNCHANGED <<posts, published, ddArticles, ddDate, ddDays, notPost>>

----------------------------------------------------------------------------
(* generate.py: create_blog_post, from the fetched articles to the post file *)

\* the --date values: each day written zero-padded (as the default,
\* today's date, is), and the first day also written without padding
PublishDates ==
  { Strftime(d) : d \in 1..MaxPostDay } \cup {[day |-> 1, padded |-> FALSE]}

\* the articles a run may fetch
FetchedArticles == { a \in PostArticles : a.link # LinkY }

\* post_path.write_text(content)
WriteFile(dir, name, content) ==
  [n \in DOMAIN dir \cup {name} |-> IF n = name THEN content ELSE dir[n]]

\* a run for `date`: the fetched articles are deduped (unless --no-dedupe) and
\* selected, the document is rendered and written under the date as given
Publish ==
  \E date \in PublishDates, fetched \in SeqUpTo(FetchedArticles, MaxPostLen),
     with_images \in BOOLEAN, dedupe \in BOOLEAN :
    LET kept == IF dedupe THEN DedupeArticles(fetched, date, DefaultDays, posts) ELSE fetched
        articles == PickArticlesBalanced(kept, DefaultLimit, PerSourceQuota, <<>>)
        r == CreatePostContent(date, articles, with_images)
    IN  /\ ~r.raised
        /\ posts' = WriteFile(posts, date, r.value)
        /\ published' = WriteFile(published, date, articles)
        /\ UNCHANGED <<ddArticles, ddDate, ddDays, ddResult, ddDone, notPost>>

----------------------------------------------------------------------------
(* generate.py: main *)

\* the boolean flags of the parser
Flags == {"--with-images", "--no-images", "--no-dedupe", "--deploy", "--no-deploy"}

\* action="store_true": True when the flag is given, the default otherwise
StoreTrue(flag, given, default) == IF flag \in given THEN TRUE ELSE default

\* parser.parse_args(), for the flags and --date
ParseArgs(given, date) ==
  [date        |-> date,
   with_images |-> StoreTrue("--with-images", given, TRUE),
   no_images   |-> StoreTrue("--no-images", given, FALSE),
   no_dedupe   |-> StoreTrue("--no-dedupe", given, FALSE),
   deploy      |-> StoreTrue("--deploy", given, TRUE),
   no_deploy   |-> StoreTrue("--no-deploy", given, FALSE)]

\* the three hexo commands of a deployment
HexoDeploy == <<"clean", "g", "d">>

\* main is not running
MainIdle ==
  /\ argv = {}
  /\ args = ParseArgs({}, Strftime(1))
  /\ mainPc = "off"
  /\ hexo = <<>>

\* the program is started from the command line
MainInit ==
  /\ argv = {}
  /\ args = ParseArgs({}, Strftime(1))
  /\ mainPc = "start"
  /\ hexo = <<>>

\* args = parser.parse_args()
MainParse ==
  /\ mainPc = "start"
  /\ \E given \in SUBSET Flags, date \in PublishDates :
       /\ argv' = given
       /\ args' = ParseArgs(given, date)
  /\ mainPc' = "parsed"
  /\ UNCHANGED <<hexo, runVars, pickVars, postVars, catVars>>

\* post_path = create_blog_post(...): the post is written, or the call raises
\* and main ends there
MainCreate ==
  /\ mainPc = "parsed"
  /\ \E fetched \in SeqUpTo(FetchedArticles, MaxPostLen) :
       LET with_images == args.with_images /\ ~args.no_images
           dedupe == ~args.no_dedupe
           kept == IF dedupe THEN DedupeArticles(fetched, args.date, DefaultDays, posts)
                   ELSE fetched
           articles == PickArticlesBalanced(kept, DefaultLimit, PerSourceQuota, <<>>)
           r == CreatePostContent(args.date, articles, with_images)
       IN  IF r.raised
           THEN /\ mainPc' = "failed"
                /\ UNCHANGED <<posts, published>>
           ELSE /\ mainPc' = "generated"
                /\ posts' = WriteFile(posts, args.date, r.value)
                /\ published' = WriteFile(published, args.date, articles)
  /\ UNCHANGED <<argv, args, hexo, ddArticles, ddDate, ddDays, ddResult, ddDone,
                 runVars, pickVars, catVars>>

\* if args.deploy: hexo clean, hexo g, hexo d
MainDeploy ==
  /\ mainPc = "generated"
  /\ hexo' = IF args.deploy THEN hexo \o HexoDeploy ELSE hexo
  /\ mainPc' = "done"
  /\ UNCHANGED <<argv, args, runVars, pickVars, postVars, catVars>>

----------------------------------------------------------------------------
(* Specifications *)

Init == RunInit /\ PickIdle /\ PostsIdle /\ CatIdle /\ MainIdle

\* one run after the other (the program is run once per day)
Next == Start(1) \/ Resolve(1) \/ Save(1) \/ Abort(1)

Spec == Init /\ [][Next]_vars

\* two runs that may overlap in time
NextOverlap == \E p \in Procs : StartOnce(p) \/ Resolve(p) \/ Save(p) \/ Abort(p)

SpecOverlap == Init /\ [][NextOverlap]_vars

----------------------------------------------------------------------------
(* The translation cache: claims *)

\* a step of run p that resolved the article at the head of todo[p]
ResolveStep(p) ==
  /\ pc[p] = "loop"
  /\ pc'[p] = "loop"
  /\ Len(todo'[p]) = Len(todo[p]) - 1

\* C1 as claimed: when a backend is configured and its call fails, the
\* resolution fails (the error reaches the caller), and the template pair is
\* produced only when no backend is configured.
C1_BackendFailureIsFatal ==
  \A p \in Procs :
    LET e == last[p]
    IN  /\ (e.configured /\ e.failed) => e.kind = "raised"
        /\ (e.kind = "miss" /\ e.pair = TemplatePair(e.article.title, e.article.source_name))
             => ~e.configured

\* C2 as claimed: once two runs that each load, translate and save have both
\* finished, the cache file holds every entry either of them wrote (which
\* includes the entries each found on disk).
C2_OverlappingRunsLoseNothing ==
  (pc[1] = "done" /\ pc[2] = "done")
    => \A p \in Procs : \A k \in DOMAIN cache[p] : disk.valid /\ k \in DOMAIN disk.data

\* C3 as claimed: a key in the cache is answered from the cache without a
\* backend call, and over any sequence of runs no key is sent to the backend
\* a second time.
C3_AtMostOneCallPerKey ==
  [][\A p \in Procs :
       ResolveStep(p) =>
         LET k == Key(Head(todo[p]))
             e == last'[p]
         IN  /\ (Truthy(k) /\ k \in DOMAIN cache[p])
                  => e.pair = cache[p][k] /\ called' = called
             /\ e.called => e.key \notin called]_vars

\* C3 as amended: a key in the cache the run holds is answered from it,
\* verbatim and without a backend call; and once a key's entry is in the cache
\* file, every later resolution of that key (in sequential runs) yields the
\* saved pair and no backend call is made for it.
C3_CachedKeyNeverRetranslated ==
  [][\A p \in Procs :
       ResolveStep(p) =>
         LET k == Key(Head(todo[p]))
             e == last'[p]
         IN  Truthy(k) =>
               /\ k \in DOMAIN cache[p]
                    => e.key = k /\ e.pair = cache[p][k] /\ ~e.called /\ called' = called
               /\ k \in DOMAIN LoadCache(disk)
                    => e.key = k /\ e.pair = disk.data[k] /\ ~e.called /\ called' = called]_vars

\* C3's case: with a backend configured, a later run answers from the cache
\* file a key that an earlier run sent to the backend
C3_Witness ==
  /\ last[1].kind = "hit"
  /\ last[1].configured
  /\ last[1].key \in called
  /\ disk.valid
  /\ last[1].key \in DOMAIN disk.data
  /\ disk.data[last[1].key] = last[1].pair

\* C4: over sequential runs, aborted ones included, every entry of the cache
\* file stays in the file with the value it had.
C4_CacheFileOnlyGrows ==
  [][\A k \in DOMAIN disk.data :
       /\ disk'.valid
       /\ k \in DOMAIN disk'.data
       /\ disk'.data[k] = disk.data[k]]_vars

\* C4's case: a run has died part-way through the loop, after a miss, and the
\* file still holds the entries of the runs before it
C4_Witness ==
  /\ pc[1] = "aborted"
  /\ last[1].kind = "miss"
  /\ disk.valid
  /\ DOMAIN disk.data # {}
  /\ disk # OldFile

\* C10: with no API key, an uncached article resolves, without an error, to
\* its own title and a summary naming its source_name followed by exactly three
\* placeholder bullets; the pair is in the run's cache and, once the run has
\* saved, in the cache file.
C10_TemplateWithoutBackend ==
  \A p \in Procs :
    LET e == last[p]
    IN  /\ ~e.configured => e.kind # "raised" /\ ~e.called
        /\ (e.kind = "miss" /\ ~e.configured) =>
              /\ e.pair.zh_title = e.article.title
              /\ Truthy(e.article.source_name)
                   => \E i \in DOMAIN e.pair.zh_summary.text :
                        e.pair.zh_summary.text[i] = e.article.source_name
              /\ e.pair.zh_summary.bullets = <<Placeholder, Placeholder, Placeholder>>
              /\ pc[p] \in {"loop", "done"} => cache[p][e.key] = e.pair
              /\ pc[p] = "done" => disk.valid /\ e.key \in DOMAIN disk.data
                                     /\ disk.data[e.key] = e.pair

\* C10's case: a run without API keys has saved a pair it made for an article
\* that names its source
C10_Witness ==
  /\ pc[1] = "done"
  /\ last[1].kind = "miss"
  /\ ~last[1].configured
  /\ Truthy(last[1].article.source_name)
  /\ disk.data[last[1].key] = last[1].pair

\* C13: over sequential runs, the pair a resolution yields for an uncached key
\* is put in the run's cache, the save writes the run's whole cache to the
\* file, and a key in the file is answered with the saved pair and without a
\* backend call whatever the backend would reply; in particular a failed call
\* of a configured backend ends the resolution with the template pair, which
\* is cached like any other.
C13_YieldedPairIsKept ==
  [][\A p \in Procs :
       /\ (pc[p] = "loop" /\ last'[p] # last[p] /\ last'[p].failed) =>
             /\ last'[p].kind = "miss"
             /\ pc'[p] = "loop"
             /\ last'[p].pair = TemplatePair(last'[p].article.title, last'[p].article.source_name)
       /\ ResolveStep(p) =>
             LET k == Key(Head(todo[p]))
                 e == last'[p]
             IN  /\ e.kind = "miss" =>
                       /\ k \in DOMAIN cache'[p]
                       /\ cache'[p][k] = e.pair
                       /\ \A x \in DOMAIN cache[p] : cache'[p][x] = cache[p][x]
                 /\ (Truthy(k) /\ disk.valid /\ k \in DOMAIN disk.data) =>
                       /\ e.kind = "hit"
                       /\ e.pair = disk.data[k]
                       /\ called' = called
       /\ (pc[p] = "loop" /\ pc'[p] = "done") =>
             /\ disk'.valid
             /\ disk'.data = cache[p]]_vars

\* C13's case: a run with a backend configured answers from the cache file,
\* with the template pair of an earlier run, a key that was sent to the backend
\* before and was not in the file the program started with
C13_Witness ==
  /\ last[1].kind = "hit"
  /\ last[1].configured
  /\ last[1].key \in called
  /\ last[1].key \notin DOMAIN OldFile.data
  /\ disk.valid
  /\ last[1].key \in DOMAIN disk.data
  /\ disk.data[last[1].key] = last[1].pair
  /\ \E a \in TrArticles :
       Key(a) = last[1].key /\ last[1].pair = TemplatePair(a.title, a.source_name)

----------------------------------------------------------------------------
(* The balanced selector: claims *)

\* C5 as claimed: with fewer candidates than limit, whatever per_source and
\* the source order (given or defaulted), the result holds every candidate
\* exactly once and nothing else.
C5_FewCandidatesAllReturned ==
  (pkDone /\ Len(pkArticles) < pkLimit) =>
     /\ Len(pkResult) = Len(pkArticles)
     /\ \A i \in 1..Len(pkArticles) :
          Cardinality({ j \in 1..Len(pkResult) : pkResult[j] = pkArticles[i] }) = 1

\* C6 as claimed: the result never holds more than limit articles, and holds
\* exactly limit of them whenever at least limit candidates exist.
C6_ExactlyLimitWhenEnough ==
  pkDone =>
     /\ Len(pkResult) <= pkLimit
     /\ Len(pkArticles) >= pkLimit => Len(pkResult) = pkLimit

\* the articles of source s, in input order
RefBucket(s) == SelectSeq(pkArticles, LAMBDA a : SourceOf(a) = s)

\* the priority order: the one given, or the observed sources in lexicographic order
RefOrder ==
  IF pkOrder # <<>>
  THEN pkOrder
  ELSE SelectSeq(<<"s1", "s2", "s3", "unknown">>,
                 LAMBDA s : \E i \in 1..Len(pkArticles) : SourceOf(pkArticles[i]) = s)

\* the quota block: for each source in priority order, its first per_source articles
RefQuota == Flatten([j \in 1..Len(RefOrder) |-> Slice(RefBucket(RefOrder[j]), pkPer)])

\* the rounds: at each offset from per_source on, one article of each source
\* that has one there, in priority order
RefRounds ==
  Flatten([r \in 1..Len(pkArticles) |->
             Flatten([j \in 1..Len(RefOrder) |->
                        LET b == RefBucket(RefOrder[j])
                        IN  IF pkPer + r <= Len(b) THEN <<b[pkPer + r]>> ELSE <<>>])])

\* the priority order lists no source twice
OrderDistinct == \A i, j \in 1..Len(RefOrder) : RefOrder[i] = RefOrder[j] => i = j

\* the articles of source s in the result are a prefix of the articles of s
PrefixOfBucket(s) ==
  LET mine == SelectSeq(pkResult, LAMBDA a : SourceOf(a) = s)
  IN  /\ Len(mine) <= Len(RefBucket(s))
      /\ mine = SubSeq(RefBucket(s), 1, Len(mine))

InitPick == RunIdle /\ PickInit /\ PostsIdle /\ CatIdle /\ MainIdle

NextPick == Pick

SpecPick == InitPick /\ [][NextPick]_vars

----------------------------------------------------------------------------
(* Deduplication and rendering: claims *)

\* the links extracted from the documents dated d - days .. d - 1
PriorLinks(d, days, dir) ==
  UNION { ExtractLinks(dir[n]) :
            n \in { Strftime(x) : x \in (d - days)..(d - 1) } \cap DOMAIN dir }

\* C8: the result is the input articles, in input order, whose link is not
\* among the links of the documents dated current_date - 1 to current_date - days;
\* a date without a document contributes nothing.
C8_DedupeWindow ==
  ddDone =>
    ddResult = SelectSeq(ddArticles,
                         LAMBDA a : a.link \notin PriorLinks(Strptime(ddDate), ddDays, posts))

\* C8's case: the default window holds a date without a document and one
\* with it, the current date and an older date hold documents too, and the call
\* dropped one article and kept another
C8_Witness ==
  /\ ddDone
  /\ ddDays = DefaultDays
  /\ Len(ddResult) = 1
  /\ Len(ddArticles) = 2
  /\ ddResult[1].link # <<>>
  /\ Strftime(Strptime(ddDate)) \in DOMAIN posts
  /\ Strftime(Strptime(ddDate) - ddDays - 1) \in DOMAIN posts
  /\ \E x \in 1..ddDays : Strftime(Strptime(ddDate) - x) \notin DOMAIN posts
  /\ ddResult[1].link \in ExtractLinks(posts[Strftime(Strptime(ddDate))])
                          \cup ExtractLinks(posts[Strftime(Strptime(ddDate) - ddDays - 1)])

\* C9 as claimed: the links extracted from a rendered document are exactly
\* the links of the articles rendered into it, so that the dedupe pass of each
\* of the following days drops every one of those articles (stated here for the
\* posts whose file name spells the date as strftime does, the only ones a
\* dedupe pass opens).
C9_RenderExtractRoundTrip ==
  \A n \in DOMAIN posts :
    /\ ExtractLinks(posts[n]) = { published[n][i].link : i \in 1..Len(published[n]) }
    /\ n.padded =>
         \A x \in 1..DefaultDays :
           DedupeArticles(published[n], Strftime(Strptime(n) + x), DefaultDays, posts) = <<>>

\* dedupe_articles on every input within the bounds
InitDedupe == RunIdle /\ PickIdle /\ DedupeInit /\ CatIdle /\ MainIdle

NextDedupe == Dedupe

SpecDedupe == InitDedupe /\ [][NextDedupe]_vars

\* the posts written over the days
InitPosts == RunIdle /\ PickIdle /\ PostsIdle /\ CatIdle /\ MainIdle

NextPosts == Publish

SpecPosts == InitPosts /\ [][NextPosts]_vars

----------------------------------------------------------------------------
(* The classifier: claims *)

\* the keywords of the category at position c of the priority order (the
\* catch-all, last, has none)
Keywords(c) ==
  CASE c = 1 -> KwAI [] c = 2 -> KwGames [] c = 3 -> KwDevTools [] c = 4 -> KwInfra
    [] OTHER -> {}

\* the positions of the categories with a keyword in the lower-cased title
RefMatches ==
  { c \in 1..Len(CATEGORIES) : \E k \in Keywords(c) : Contains(Lower(catTitle), k) }

\* the first of them in the priority order, or the catch-all
RefCategory ==
  IF RefMatches = {}
  THEN CATEGORIES[Len(CATEGORIES)]
  ELSE CATEGORIES[CHOOSE c \in RefMatches : \A d \in RefMatches : c <= d]

\* an article with the title handed to categorize
CatArticle ==
  [title |-> catTitle, link |-> LinkX, source |-> "s1", comments |-> <<>>,
   zh_title |-> "zh", zh_summary |-> "sum"]

\* C11: every title, the empty one included, is given exactly one category of
\* the fixed list: the first in priority order with a keyword in the
\* lower-cased title, the catch-all when there is none; and an article with
\* that title is rendered in the section of exactly one category.
C11_CategorizeTotal ==
  catDone =>
    /\ \E c \in 1..Len(CATEGORIES) : catResult = CATEGORIES[c]
    /\ catResult = RefCategory
    /\ catTitle = <<>> => catResult = CATEGORIES[Len(CATEGORIES)]
    /\ { c \in 1..Len(CATEGORIES) : SectionLines(CATEGORIES[c], <<CatArticle>>, FALSE) # <<>> }
         = { CHOOSE c \in 1..Len(CATEGORIES) : CATEGORIES[c] = catResult }

\* C11's case: a title that holds, once lower-cased, a keyword of the fourth
\* category ("aws") and one of the third ("sql"), and is given the third
C11_Witness ==
  /\ catDone
  /\ catTitle = <<"A", "w", "s", "q", "l">>
  /\ catResult = CATEGORIES[3]

\* categorize on every title within the bounds
InitCategorize == RunIdle /\ PickIdle /\ PostsIdle /\ CatInit /\ MainIdle

NextCategorize == CategorizeCall

SpecCategorize == InitCategorize /\ [][NextCategorize]_vars

----------------------------------------------------------------------------
(* The command line: claims *)

\* C12 as claimed: the hexo commands run only when deploy is enabled and
\* --no-deploy is not given; with --no-deploy no hexo command is ever run.
C12_DeployToggleHonoured ==
  /\ "--no-deploy" \in argv => hexo = <<>>
  /\ hexo # <<>> => (args.deploy /\ ~args.no_deploy)

\* one run of the program from the command line
InitMain == RunIdle /\ PickIdle /\ PostsIdle /\ CatIdle /\ MainInit

NextMain == MainParse \/ MainCreate \/ MainDeploy

SpecMain == InitMain /\ [][NextMain]_vars

====
